---- MODULE Spec2Model ----
(***************************************************************************)
(* A model of monistode_binutils_shared: the bit-packed ByteArray, the     *)
(* Text section and its merge, the SymbolTable / RelocationTable wire      *)
(* encodings and the ObjectManager (to_bytes, load, append_section,        *)
(* merge), the PlacedBinary, the ExecutableFile and its segment table, and *)
(* the HarvardExecutableFilePair.  Byte strings are sequences of 0..255;   *)
(* str values are TLA+ strings whose UTF-8 encoding is given by Utf8.      *)
(***************************************************************************)
EXTENDS Integers, Sequences, FiniteSets, TLC

VARIABLES
    texts,      \* SpecText: the Text sections under construction, by slot
    parts,      \* SpecText: per slot, the element runs that went into it, in order
    width,      \* SpecText: the unit width shared by the slots
    symtab,     \* SpecSym: the SymbolTable being filled with append
    symgiven,   \* SpecSym: the symbols handed to append so far, in order
    symloaded,  \* SpecSym: <<the table from_bytes built from symtab's data>>, or <<>>
    reltab,     \* SpecRel: the RelocationTable being filled with append
    relloaded,  \* SpecRel: <<the table from_bytes built from reltab's data>>, or <<>>
    heap,       \* SpecOM: the section objects, by reference (index); Free when dropped
    oms,        \* SpecOM: the ObjectManagers, by name
    disk,       \* SpecOM: the bytes the last to_bytes returned, <<>> if it raised
    array,      \* SpecBA: the ByteArray under construction
    given,      \* SpecBA: the values the array was given, in element order
    copy,       \* SpecBA: <<the array from_bytes built from array's to_bytes>>, or <<>>
    binary,     \* SpecPB: the PlacedBinary that is extended
    exe,        \* SpecExe: the raw storage (self.data) of the ExecutableFile
    exegiven,   \* SpecExe: the segments handed to append_segment since the last clear
    pair,       \* SpecHv: the text and data regions of the HarvardExecutableFilePair
    last,       \* the last operation performed and what it was applied to
    result,     \* how the last operation ended: "ok" or the exception it raised
    steps       \* number of operations performed so far

textVars == <<texts, parts, width>>
symVars == <<symtab, symgiven, symloaded>>
relVars == <<reltab, relloaded>>
omVars == <<heap, oms, disk>>
baVars == <<array, given, copy>>
pbVars == <<binary>>
exeVars == <<exe, exegiven>>
hvVars == <<pair>>
vars == <<textVars, symVars, relVars, omVars, baVars, pbVars, exeVars, hvVars,
          last, result, steps>>

(***************************************************************************)
(* Bounds of the model.                                                    *)
(***************************************************************************)
MaxOps == 5         \* operations in one run of SpecText
MaxSymbols == 3     \* symbols appended to one SymbolTable in SpecSym
MaxRelocs == 2      \* relocations appended to one RelocationTable in SpecRel
MaxOMOps == 4       \* operations in one run of SpecOM
MaxBAOps == 4       \* operations in one run of SpecBA
MaxPBOps == 2       \* operations in one run of SpecPB
MaxExeOps == 3      \* operations in one run of SpecExe
MaxHvOps == 3       \* operations in one run of SpecHv

Null == "null"

\* the variables of the specifications that are not running
BAIdle == array = Null /\ given = Null /\ copy = Null
PBIdle == binary = Null
ExeIdle == exe = Null /\ exegiven = Null
HvIdle == pair = Null

(***************************************************************************)
(* Helpers: Python integer and bytes primitives.                           *)
(***************************************************************************)
Min(a, b) == IF a < b THEN a ELSE b

\* -(-a // b), Python's idiom for the ceiling of a / b
CeilDiv(a, b) == -((-a) \div b)

\* bytearray(n): n zero bytes
Zeros(n) == [i \in 1..n |-> 0]

\* data[lo:hi] of a bytes object, with Python's clamping of the bounds
Slice(data, lo, hi) ==
    LET h == Min(hi, Len(data))
    IN  IF lo >= h THEN <<>> ELSE SubSeq(data, lo + 1, h)

RECURSIVE Flatten(_)
Flatten(ss) == IF ss = <<>> THEN <<>> ELSE Head(ss) \o Flatten(Tail(ss))

(***************************************************************************)
(* bitstruct "u<w>": big-endian bit order within the buffer.               *)
(***************************************************************************)
BitAt(data, k) == (data[(k \div 8) + 1] \div (2 ^ (7 - (k % 8)))) % 2

RECURSIVE UnpackBits(_, _, _, _)
UnpackBits(data, off, w, j) ==
    IF j = w THEN 0
    ELSE BitAt(data, off + j) * (2 ^ (w - 1 - j)) + UnpackBits(data, off, w, j + 1)

\* bitstruct.unpack_from("u<w>", data, off)[0]
UnpackFrom(w, data, off) == UnpackBits(data, off, w, 0)

PackedBit(w, data, off, v, k) ==
    IF k >= off /\ k < off + w
    THEN (v \div (2 ^ (w - 1 - (k - off)))) % 2
    ELSE BitAt(data, k)

RECURSIVE PackedByte(_, _, _, _, _, _)
PackedByte(w, data, off, v, i, b) ==
    IF b = 8 THEN 0
    ELSE PackedBit(w, data, off, v, 8 * i + b) * (2 ^ (7 - b))
         + PackedByte(w, data, off, v, i, b + 1)

\* bitstruct.pack_into("u<w>", data, off, v): the bits outside [off, off+w) are kept
PackInto(w, data, off, v) ==
    [i \in 1..Len(data) |->
        IF 8 * i <= off \/ 8 * (i - 1) >= off + w THEN data[i]
        ELSE PackedByte(w, data, off, v, i - 1, 0)]

(***************************************************************************)
(* ByteArray (bytearray.py).                                               *)
(***************************************************************************)
ByteArray(byte, capacity) ==
    [byte |-> byte, data |-> Zeros(CeilDiv(capacity * byte, 8)),
     length |-> 0, capacity |-> capacity]

ByteArray_getitem_raises(ba, index) == index >= ba.length

ByteArray_getitem(ba, index) == UnpackFrom(ba.byte, ba.data, index * ba.byte)

\* a guard that looks at the room in the buffer instead of the length
ByteArray_setitem_raises_buffer(ba, index) == (index + 1) * ba.byte > 8 * Len(ba.data)

ByteArray_setitem_raises(ba, index) == index >= ba.length

\* a write that packs the value into an emptied buffer, dropping the neighbours
ByteArray_setitem_fresh_buffer(ba, index, value) ==
    IF ByteArray_setitem_raises(ba, index) THEN ba
    ELSE [ba EXCEPT !.data = PackInto(ba.byte, Zeros(Len(ba.data)), index * ba.byte, value)]

ByteArray_setitem(ba, index, value) ==
    IF ByteArray_setitem_raises(ba, index) THEN ba
    ELSE [ba EXCEPT !.data = PackInto(ba.byte, ba.data, index * ba.byte, value)]

ByteArray_len(ba) == ba.length

\* the values the generator yields: range(self._length) is fixed when it starts
ByteArray_iter(ba) == [i \in 1..ba.length |-> ByteArray_getitem(ba, i - 1)]

ByteArray_append_index(ba) == ba.length - 1

ByteArray_append(ba, value) ==
    LET len1 == ba.length + 1
        grow == len1 >= ba.capacity
        cap  == IF grow THEN 2 * (IF ba.capacity = 0 THEN 1 ELSE ba.capacity)
                ELSE ba.capacity
        dat  == IF grow THEN ba.data \o Zeros(CeilDiv(cap * ba.byte, 8)) ELSE ba.data
        grown == [ba EXCEPT !.length = len1, !.capacity = cap, !.data = dat]
    IN  ByteArray_setitem(grown, ByteArray_append_index(grown), value)

\* the whole buffer, unused capacity included
ByteArray_to_bytes_buffer(ba) == ba.data

ByteArray_to_bytes(ba) == Slice(ba.data, 0, CeilDiv(ba.length * ba.byte, 8))

ByteArray_from_bytes(ba, data, length) ==
    [ba EXCEPT !.data = data, !.length = length, !.capacity = length]

\* "for byte in data: self.append(byte)"
RECURSIVE ByteArray_extend(_, _)
ByteArray_extend(ba, data) ==
    IF data = <<>> THEN ba
    ELSE ByteArray_extend(ByteArray_append(ba, Head(data)), Tail(data))

\* only the length is reset: the buffer and the capacity stay as they are
ByteArray_clear(ba) == [ba EXCEPT !.length = 0]

(***************************************************************************)
(* Location, Symbol, SymbolRelocation (location.py, symbol.py,             *)
(* relocation.py).                                                         *)
(***************************************************************************)
Location(section, offset) == [section |-> section, offset |-> offset]

Location_apply_offset(loc, offset) == Location(loc.section, loc.offset + offset)

Symbol(location, name) == [location |-> location, name |-> name]

RelocationTargetSymbol(name, section_name) ==
    [name |-> name, section_name |-> section_name]

SymbolRelocationParams(target, offset, relative) ==
    [target |-> target, offset |-> offset, relative |-> relative]

\* the dataclass has exactly these four fields
SymbolRelocation(location, symbol, offset, relative) ==
    [location |-> location, symbol |-> symbol, offset |-> offset,
     relative |-> relative]

SymbolRelocation_from_params(location, params) ==
    SymbolRelocation(location, params.target, params.offset, params.relative)

(***************************************************************************)
(* Text (section/text.py).                                                 *)
(***************************************************************************)
Text(byte) ==
    [name |-> "text", byte |-> byte, data |-> ByteArray(byte, 0),
     symbols |-> <<>>, relocations |-> <<>>]

Text_len(t) == ByteArray_len(t.data)

Text_data(t) == ByteArray_to_bytes(t.data)

Text_physical_size(t) == Len(Text_data(t))

Text_iter(t) == ByteArray_iter(t.data)

Text_add_symbol(t, symbol) == [t EXCEPT !.symbols = Append(@, symbol)]

Text_add_raw_symbol(t, name) ==
    [t EXCEPT !.symbols = Append(@, Symbol(Location(t.name, Text_len(t)), name))]

Text_add_relocation(t, relocation) ==
    [t EXCEPT !.relocations = Append(@, relocation)]

Text_add_raw_relocation(t, params) ==
    [t EXCEPT !.relocations =
        Append(@, SymbolRelocation_from_params(Location(t.name, Text_len(t)), params))]

Text_add_byte(t, byte) == [t EXCEPT !.data = ByteArray_append(@, byte)]

Text_from_bytes(t, data, length) ==
    [t EXCEPT !.data = ByteArray_from_bytes(@, data, length)]

Text_offset_symbols(symbols, offset) ==
    [i \in 1..Len(symbols) |->
        Symbol(Location_apply_offset(symbols[i].location, offset), symbols[i].name)]

Text_offset_relocations(relocations, offset) ==
    [i \in 1..Len(relocations) |->
        SymbolRelocation(Location_apply_offset(relocations[i].location, offset),
                         relocations[i].symbol, relocations[i].offset,
                         relocations[i].relative)]

RECURSIVE AppendAll(_, _)
AppendAll(ba, values) ==
    IF values = <<>> THEN ba
    ELSE AppendAll(ByteArray_append(ba, Head(values)), Tail(values))

\* a merge that walks other's packed 8-bit bytes instead of its elements
Text_merge_bytes_packed(self, other) ==
    [self EXCEPT !.data = AppendAll(self.data, Text_data(other))]

\* self after "for byte in other: self._data.append(byte)"
Text_merge_bytes(self, other) ==
    [self EXCEPT !.data = AppendAll(self.data, Text_iter(other))]

\* the offset merge passes to offset_symbols / offset_relocations: len(self),
\* evaluated after other's bytes have been appended
Text_merge_offset(appended) == Text_len(appended)

Text_merge(self, other) ==
    LET appended == Text_merge_bytes(self, other)
    IN  [appended EXCEPT
            !.symbols = @ \o Text_offset_symbols(other.symbols,
                                                 Text_merge_offset(appended)),
            !.relocations = @ \o Text_offset_relocations(other.relocations,
                                                 Text_merge_offset(appended))]

(***************************************************************************)
(* SpecText: a linker's use of Text.merge.  Slot Out is the section that   *)
(* accumulates, slot Unit is the translation unit being assembled with     *)
(* add_byte / add_raw_symbol / add_raw_relocation; the unit is merged into *)
(* Out and a new unit is started.                                          *)
(***************************************************************************)
Out == "out"
Unit == "unit"
Slots == {Out, Unit}
Widths == {6, 8}
ByteValues == {1, 2}
SymbolNames == {"main", "helper"}
RelocParams ==
    {SymbolRelocationParams(RelocationTargetSymbol("main", "text"), 0, TRUE)}

Elements(t) == Text_iter(t)

\* what `last` records: the operation, and Out and Unit as they were before it
TextSnapshot(op) == [op |-> op, self |-> texts[Out], other |-> texts[Unit]]

\* the sections Out may start as: empty, or assembled directly
InitialOut(w) ==
    { Text(w),
      Text_add_byte(Text_add_raw_symbol(Text(w), "main"), 1),
      Text_add_raw_relocation(Text_add_byte(Text(w), 2), CHOOSE p \in RelocParams : TRUE) }

TextInit ==
    /\ width \in Widths
    /\ \E o \in InitialOut(width) : texts = [s \in Slots |-> IF s = Out THEN o ELSE Text(width)]
    /\ parts = <<Elements(texts[Out])>>
    /\ last = TextSnapshot("init")
    /\ result = "ok"
    /\ steps = 0
    /\ symtab = Null /\ symgiven = Null /\ symloaded = Null
    /\ reltab = Null /\ relloaded = Null
    /\ heap = Null /\ oms = Null /\ disk = Null
    /\ BAIdle /\ PBIdle /\ ExeIdle /\ HvIdle

\* what the operations of SpecText leave alone
TextFrame == UNCHANGED <<symVars, relVars, omVars, baVars, pbVars, exeVars, hvVars>>

TAddByte(v) ==
    /\ steps < MaxOps
    /\ texts' = [texts EXCEPT ![Unit] = Text_add_byte(@, v)]
    /\ last' = TextSnapshot("add_byte")
    /\ steps' = steps + 1
    /\ UNCHANGED <<parts, width, result>>
    /\ TextFrame

TAddRawSymbol(n) ==
    /\ steps < MaxOps
    /\ texts' = [texts EXCEPT ![Unit] = Text_add_raw_symbol(@, n)]
    /\ last' = TextSnapshot("add_raw_symbol")
    /\ steps' = steps + 1
    /\ UNCHANGED <<parts, width, result>>
    /\ TextFrame

TAddRawRelocation(p) ==
    /\ steps < MaxOps
    /\ texts' = [texts EXCEPT ![Unit] = Text_add_raw_relocation(@, p)]
    /\ last' = TextSnapshot("add_raw_relocation")
    /\ steps' = steps + 1
    /\ UNCHANGED <<parts, width, result>>
    /\ TextFrame

\* Out.merge(Unit), after which the linker turns to the next unit, a new Text
TMerge ==
    /\ steps < MaxOps
    /\ texts' = [texts EXCEPT ![Out] = Text_merge(@, texts[Unit]),
                              ![Unit] = Text(width)]
    /\ parts' = Append(parts, Elements(texts[Unit]))
    /\ last' = TextSnapshot("merge")
    /\ steps' = steps + 1
    /\ UNCHANGED <<width, result>>
    /\ TextFrame

TextNext ==
    \/ \E v \in ByteValues : TAddByte(v)
    \/ \E n \in SymbolNames : TAddRawSymbol(n)
    \/ \E p \in RelocParams : TAddRawRelocation(p)
    \/ TMerge

SpecText == TextInit /\ [][TextNext]_vars

(***************************************************************************)
(* Claims on Text.merge, checked under SpecText.                           *)
(***************************************************************************)

\* C1: Text.merge(other) appends every symbol and every relocation of other to
\* self with its offset increased by exactly the length self had before the
\* merge, and the symbols and relocations already on self are kept as they were.
C1_MergeShiftsByPreMergeLength ==
    last.op = "merge" =>
        LET n == Text_len(last.self)
        IN  /\ texts[Out].symbols =
                 last.self.symbols \o Text_offset_symbols(last.other.symbols, n)
            /\ texts[Out].relocations =
                 last.self.relocations
                    \o Text_offset_relocations(last.other.relocations, n)

\* C2: merging A, then B, then C into one Text section of the same unit width
\* yields the elements of A, B and C concatenated in that order; the length is
\* the sum of their lengths and a merge changes no element already present.
C2_MergeConcatenatesData ==
    /\ Elements(texts[Out]) = Flatten(parts)
    /\ Text_len(texts[Out]) = Len(Flatten(parts))
    /\ last.op = "merge" =>
          SubSeq(Elements(texts[Out]), 1, Text_len(last.self)) = Elements(last.self)

\* three non-empty runs A, B, C have been merged into Out
C2_Witness ==
    /\ last.op = "merge"
    /\ Len(parts) = 3
    /\ \A i \in 1..3 : parts[i] # <<>>
    /\ parts[2] # parts[3]

(***************************************************************************)
(* Python values the tables rely on: str and bytes (never equal to one     *)
(* another), str.encode / bytes.decode, insertion-ordered dict, struct.    *)
(***************************************************************************)
\* the str values of the model; "u_e9" stands for the one-character str U+00E9
KnownStrings == {"", "a", "ab", "u_e9", "main", "helper"}

\* name.encode("utf-8")
Utf8(name) ==
    CASE name = "" -> <<>>
      [] name = "a" -> <<97>>
      [] name = "ab" -> <<97, 98>>
      [] name = "u_e9" -> <<195, 169>>
      [] name = "main" -> <<109, 97, 105, 110>>
      [] name = "helper" -> <<104, 101, 108, 112, 101, 114>>

\* data.decode("utf-8")
Utf8Decode(data) ==
    IF \E n \in KnownStrings : Utf8(n) = data
    THEN CHOOSE n \in KnownStrings : Utf8(n) = data
    ELSE Null

PyStr(v) == [type |-> "str", val |-> v]
PyBytes(v) == [type |-> "bytes", val |-> v]

\* a == b on str / bytes values: values of different types are never equal
PyEq(a, b) == a.type = b.type /\ a.val = b.val

\* key in d
DictHas(d, k) == \E i \in 1..Len(d) : PyEq(d[i].key, k)

\* d[k]
DictGet(d, k) == d[CHOOSE i \in 1..Len(d) : PyEq(d[i].key, k)].value

\* d[k] = v: a new key goes last, an old key keeps its place
DictSet(d, k, v) ==
    IF DictHas(d, k)
    THEN [i \in 1..Len(d) |->
            IF PyEq(d[i].key, k) THEN [key |-> d[i].key, value |-> v] ELSE d[i]]
    ELSE Append(d, [key |-> k, value |-> v])

RECURSIVE InsertByValue(_, _)
InsertByValue(sorted, e) ==
    IF sorted = <<>> THEN <<e>>
    ELSE IF Head(sorted).value <= e.value
         THEN <<Head(sorted)>> \o InsertByValue(Tail(sorted), e)
         ELSE <<e>> \o sorted

\* sorted(d.keys(), key=lambda name: d[name]), with the values kept alongside
RECURSIVE SortedByValue(_)
SortedByValue(d) ==
    IF d = <<>> THEN <<>>
    ELSE InsertByValue(SortedByValue(SubSeq(d, 1, Len(d) - 1)), d[Len(d)])

\* struct.pack("<I", n)
U32LE(n) ==
    <<n % 256, (n \div 256) % 256, (n \div 65536) % 256, (n \div 16777216) % 256>>

\* struct.unpack("<I", data[off : off + 4])[0]
ReadU32LE(data, off) ==
    data[off + 1] + 256 * data[off + 2] + 65536 * data[off + 3]
        + 16777216 * data[off + 4]

\* data.find(b"\x00", start)
RECURSIVE Find(_, _, _)
Find(data, byte, start) ==
    IF start >= Len(data) THEN -1
    ELSE IF data[start + 1] = byte THEN start
    ELSE Find(data, byte, start + 1)

\* data[address : data.find(b"\x00", address)].decode("utf-8")
string_at(data, address) ==
    LET e == Find(data, 0, address)
    IN  Utf8Decode(Slice(data, address, IF e < 0 THEN Len(data) + e ELSE e))

(***************************************************************************)
(* SectionType (section/section_type.py).                                  *)
(***************************************************************************)
\* the member names in lower case; a member's value is its index minus one
SectionTypes == <<"text", "data", "bss", "symbol_table", "relocation_table">>

SectionNames == {SectionTypes[i] : i \in 1..Len(SectionTypes)}

\* SectionType[name.upper()].value
section_name_to_id(name) ==
    (CHOOSE i \in 1..Len(SectionTypes) : SectionTypes[i] = name) - 1

\* SectionType(id).name.lower()
SectionType_name(id) == SectionTypes[id + 1]

(***************************************************************************)
(* SymbolTable (section/symbol_table.py).                                  *)
(***************************************************************************)
SymbolRecordSize == 12

SymbolTable == [name |-> "symbol_table", symbols |-> <<>>, names |-> <<>>]

SymbolTable_len(t) == Len(t.symbols)

RECURSIVE SumKeyLengths(_)
SumKeyLengths(d) ==
    IF d = <<>> THEN 0 ELSE SumKeyLengths(Tail(d)) + Len(Head(d).key.val)

\* sum(len(name) for name in self.names.keys()): the offset without the NULs
SymbolTable_name_offset_no_nul(names) == SumKeyLengths(names)

\* sum(len(name) + 1 for name in self.names.keys())
SymbolTable_name_offset(names) == SumKeyLengths(names) + Len(names)

SymbolTable_append_name(t, name) ==
    LET encoded_name == PyBytes(Utf8(name))
    IN  IF ~DictHas(t.names, encoded_name)
        THEN [t EXCEPT !.names =
                 DictSet(@, encoded_name, SymbolTable_name_offset(t.names))]
        ELSE t

\* "if symbol.name in self.names": a str looked up among the bytes keys
SymbolTable_append_raises(t, symbol) == DictHas(t.names, PyStr(symbol.name))

SymbolTable_append(t, symbol) ==
    SymbolTable_append_name([t EXCEPT !.symbols = Append(@, symbol)], symbol.name)

SymbolTable_symbol_data(t, symbol) ==
    U32LE(section_name_to_id(symbol.location.section))
        \o U32LE(symbol.location.offset)
        \o U32LE(DictGet(t.names, PyBytes(Utf8(symbol.name))))

SymbolTable_data(t) ==
    Flatten([i \in 1..Len(t.symbols) |-> SymbolTable_symbol_data(t, t.symbols[i])])
        \o Flatten([i \in 1..Len(t.names) |->
                       SortedByValue(t.names)[i].key.val \o <<0>>])

SymbolTable_physical_size(t) == Len(SymbolTable_data(t))

\* one round of the loop of from_bytes
SymbolTable_from_bytes_record(t, data, symbol_count, i) ==
    LET offset0 == i * SymbolRecordSize
        section_id == ReadU32LE(data, offset0)
        offset == ReadU32LE(data, offset0 + 4)
        name_addr == ReadU32LE(data, offset0 + 8)
        symbol_name == string_at(data, name_addr + symbol_count * SymbolRecordSize)
    IN  [t EXCEPT
            !.symbols = Append(@, Symbol(Location(SectionType_name(section_id),
                                                  offset), symbol_name)),
            !.names = DictSet(@, PyBytes(Utf8(symbol_name)), name_addr)]

RECURSIVE SymbolTable_from_bytes_loop(_, _, _, _)
SymbolTable_from_bytes_loop(t, data, symbol_count, i) ==
    IF i >= symbol_count THEN t
    ELSE SymbolTable_from_bytes_loop(
             SymbolTable_from_bytes_record(t, data, symbol_count, i),
             data, symbol_count, i + 1)

SymbolTable_from_bytes(t, data, symbol_count) ==
    SymbolTable_from_bytes_loop(t, data, symbol_count, 0)

(***************************************************************************)
(* SpecSym: one SymbolTable is filled with append and then read back with  *)
(* from_bytes from its own data.                                           *)
(***************************************************************************)
SymNames == {"a", "ab", "u_e9"}
SymSections == {"text", "data"}
SymOffsets == {0, 258}
SymInputs ==
    {Symbol(Location(sec, off), n) : sec \in SymSections, off \in SymOffsets,
                                     n \in SymNames}

SymInit ==
    /\ symtab = SymbolTable
    /\ symgiven = <<>>
    /\ symloaded = <<>>
    /\ last = [op |-> "init", self |-> SymbolTable, other |-> <<>>]
    /\ result = "ok"
    /\ steps = 0
    /\ texts = Null /\ parts = Null /\ width = Null
    /\ reltab = Null /\ relloaded = Null
    /\ heap = Null /\ oms = Null /\ disk = Null
    /\ BAIdle /\ PBIdle /\ ExeIdle /\ HvIdle

\* what the operations of SpecSym leave alone
SymFrame == UNCHANGED <<textVars, relVars, omVars, baVars, pbVars, exeVars, hvVars>>

SymAppend(symbol) ==
    /\ Len(symgiven) < MaxSymbols
    /\ IF SymbolTable_append_raises(symtab, symbol)
       THEN result' = "ValueError" /\ UNCHANGED symtab
       ELSE result' = "ok" /\ symtab' = SymbolTable_append(symtab, symbol)
    /\ symgiven' = Append(symgiven, symbol)
    /\ symloaded' = <<>>
    /\ last' = [op |-> "append", self |-> symtab, other |-> <<symbol>>]
    /\ UNCHANGED steps
    /\ SymFrame

SymFromBytes ==
    /\ symloaded = <<>>
    /\ symloaded' = <<SymbolTable_from_bytes(SymbolTable, SymbolTable_data(symtab),
                                             SymbolTable_len(symtab))>>
    /\ last' = [op |-> "from_bytes", self |-> symtab, other |-> <<>>]
    /\ result' = "ok"
    /\ UNCHANGED <<symtab, symgiven, steps>>
    /\ SymFrame

SymNext ==
    \/ \E symbol \in SymInputs : SymAppend(symbol)
    \/ SymFromBytes

SpecSym == SymInit /\ [][SymNext]_vars

\* C7: SymbolTable.append(symbol) fails with a duplicate-symbol error whenever a
\* symbol of the same name was appended to the table before, and then leaves the
\* table's symbol list and name pool unchanged.
C7_DuplicateAppendFails ==
    (/\ last.op = "append"
     /\ \E i \in 1..(Len(symgiven) - 1) : symgiven[i].name = last.other[1].name)
    => (result = "ValueError" /\ symtab = last.self)

\* the distinct names of a symbol list, in the order of their first occurrence
RECURSIVE DistinctNames(_)
DistinctNames(symbols) ==
    IF symbols = <<>> THEN <<>>
    ELSE LET before == DistinctNames(SubSeq(symbols, 1, Len(symbols) - 1))
             n == symbols[Len(symbols)].name
         IN  IF \E i \in 1..Len(before) : before[i] = n THEN before
             ELSE Append(before, n)

RECURSIVE PoolOffset(_, _)
PoolOffset(names, k) ==
    IF k = 0 THEN 0 ELSE PoolOffset(names, k - 1) + Len(Utf8(names[k])) + 1

\* C10: in a SymbolTable built by append the pool offset of the N-th distinct
\* name is the sum of (byte length + 1) of the distinct names before it; data
\* holds the 12-byte records and then the names in first-insertion order, each
\* followed by a NUL; the string at name_addr + symbol_count*12 is the symbol's
\* own name, and from_bytes(t.data, len(t)) reproduces the symbols in order.
C10_NamePool ==
    LET names == DistinctNames(symtab.symbols)
        n == SymbolTable_len(symtab)
        data == SymbolTable_data(symtab)
    IN  /\ Len(symtab.names) = Len(names)
        /\ \A i \in 1..Len(names) :
              /\ symtab.names[i].key = PyBytes(Utf8(names[i]))
              /\ symtab.names[i].value = PoolOffset(names, i - 1)
        /\ Slice(data, n * 12, Len(data))
              = Flatten([i \in 1..Len(names) |-> Utf8(names[i]) \o <<0>>])
        /\ \A i \in 1..n :
              string_at(data, ReadU32LE(data, (i - 1) * 12 + 8) + n * 12)
                  = symtab.symbols[i].name
        /\ symloaded # <<>> => symloaded[1].symbols = symtab.symbols

\* a table of three symbols with a repeated name and a two-byte name, read back
C10_Witness ==
    /\ symloaded # <<>>
    /\ Len(symtab.symbols) = 3
    /\ Len(symtab.names) = 2
    /\ \E i \in 1..3 : symtab.symbols[i].name = "u_e9"
    /\ symtab.symbols[3].name = "ab"
    /\ symloaded[1].symbols = symtab.symbols

(***************************************************************************)
(* RelocationTable (section/relocation_table.py).                          *)
(***************************************************************************)
RelocationRecordSize == 28

RelocationTable == [name |-> "relocation_table", relocations |-> <<>>, names |-> <<>>]

RelocationTable_len(t) == Len(t.relocations)

RelocationTable_append_name(t, name) ==
    LET encoded_name == PyBytes(Utf8(name))
    IN  IF ~DictHas(t.names, encoded_name)
        THEN [t EXCEPT !.names =
                 DictSet(@, encoded_name, SymbolTable_name_offset(t.names))]
        ELSE t

RelocationTable_append(t, relocation) ==
    RelocationTable_append_name([t EXCEPT !.relocations = Append(@, relocation)],
                                relocation.symbol.name)

\* the attributes relocation_data reads from a relocation
RelocationTable_fields_read == {"location", "symbol", "size", "offset", "relative"}

\* relocation_data raises AttributeError when it reads an attribute the
\* relocation does not have
RelocationTable_relocation_data_raises(relocation) ==
    ~(RelocationTable_fields_read \subseteq DOMAIN relocation)

RelocationTable_relocation_data(t, relocation) ==
    U32LE(section_name_to_id(relocation.location.section))
        \o U32LE(relocation.location.offset)
        \o U32LE(DictGet(t.names, PyBytes(Utf8(relocation.symbol.name))))
        \o U32LE(section_name_to_id(relocation.symbol.section_name))
        \o U32LE(relocation.size)
        \o U32LE(relocation.offset)
        \o U32LE(IF relocation.relative THEN 1 ELSE 0)

RelocationTable_data_raises(t) ==
    \E i \in 1..Len(t.relocations) :
        RelocationTable_relocation_data_raises(t.relocations[i])

RelocationTable_data(t) ==
    Flatten([i \in 1..Len(t.relocations) |->
                RelocationTable_relocation_data(t, t.relocations[i])])
        \o Flatten([i \in 1..Len(t.names) |->
                       SortedByValue(t.names)[i].key.val \o <<0>>])

\* the positional arguments from_bytes passes to SymbolRelocation(...)
RelocationTable_from_bytes_args(data, symbol_count, i) ==
    LET offset0 == i * RelocationRecordSize
        location_section_id == ReadU32LE(data, offset0)
        location_offset == ReadU32LE(data, offset0 + 4)
        name_addr == ReadU32LE(data, offset0 + 8)
        symbol_section_id == ReadU32LE(data, offset0 + 12)
        symbol_size == ReadU32LE(data, offset0 + 16)
        symbol_offset == ReadU32LE(data, offset0 + 20)
        relative == ReadU32LE(data, offset0 + 24)
        relocation_name ==
            string_at(data, name_addr + symbol_count * RelocationRecordSize)
    IN  << Location(SectionType_name(location_section_id), location_offset),
           RelocationTargetSymbol(relocation_name,
                                  SectionType_name(symbol_section_id)),
           symbol_size, symbol_offset, relative >>

\* the number of fields of the SymbolRelocation dataclass
SymbolRelocation_arity ==
    Cardinality(DOMAIN SymbolRelocation(Null, Null, Null, Null))

\* from_bytes raises TypeError on the first record: it calls SymbolRelocation
\* with more positional arguments than the dataclass has fields
RelocationTable_from_bytes_raises(data, symbol_count) ==
    /\ symbol_count > 0
    /\ Len(RelocationTable_from_bytes_args(data, symbol_count, 0))
          # SymbolRelocation_arity

\* when it does not raise, from_bytes has loaded no record
RelocationTable_from_bytes(t, data, symbol_count) == t

(***************************************************************************)
(* SpecRel: one RelocationTable is filled with append, serialized with     *)
(* data and read back with from_bytes.                                     *)
(***************************************************************************)
RelInputs ==
    {SymbolRelocation(Location(sec, off), RelocationTargetSymbol(n, "text"), bits, rel) :
        sec \in SymSections, off \in {0, 1}, n \in {"a", "u_e9"}, bits \in {0, 4},
        rel \in BOOLEAN}

RelInit ==
    /\ reltab = RelocationTable
    /\ relloaded = <<>>
    /\ last = [op |-> "init", self |-> RelocationTable, other |-> <<>>]
    /\ result = "ok"
    /\ steps = 0
    /\ texts = Null /\ parts = Null /\ width = Null
    /\ symtab = Null /\ symgiven = Null /\ symloaded = Null
    /\ heap = Null /\ oms = Null /\ disk = Null
    /\ BAIdle /\ PBIdle /\ ExeIdle /\ HvIdle

\* what the operations of SpecRel leave alone
RelFrame == UNCHANGED <<textVars, symVars, omVars, baVars, pbVars, exeVars, hvVars, steps>>

RelAppend(relocation) ==
    /\ RelocationTable_len(reltab) < MaxRelocs
    /\ reltab' = RelocationTable_append(reltab, relocation)
    /\ relloaded' = <<>>
    /\ last' = [op |-> "append", self |-> reltab, other |-> <<relocation>>]
    /\ result' = "ok"
    /\ RelFrame

\* t2 = RelocationTable(); t2.from_bytes(t.data, len(t))
RelRoundTrip ==
    /\ last.op # "round_trip"
    /\ last' = [op |-> "round_trip", self |-> reltab, other |-> <<>>]
    /\ IF RelocationTable_data_raises(reltab)
       THEN result' = "AttributeError" /\ relloaded' = <<>>
       ELSE IF RelocationTable_from_bytes_raises(RelocationTable_data(reltab),
                                                 RelocationTable_len(reltab))
       THEN result' = "TypeError" /\ relloaded' = <<>>
       ELSE /\ result' = "ok"
            /\ relloaded' = <<RelocationTable_from_bytes(RelocationTable,
                                  RelocationTable_data(reltab),
                                  RelocationTable_len(reltab))>>
    /\ UNCHANGED reltab
    /\ RelFrame

RelNext ==
    \/ \E relocation \in RelInputs : RelAppend(relocation)
    \/ RelRoundTrip

SpecRel == RelInit /\ [][RelNext]_vars

\* C9: for any list of relocations appended to a RelocationTable t, a new table
\* loaded with from_bytes(t.data, len(t)) yields the same relocations in the
\* same order, equal in every field of the record.
C9_RelocationRoundTrip ==
    last.op = "round_trip" =>
        /\ result = "ok"
        /\ relloaded # <<>>
        /\ relloaded[1].relocations = reltab.relocations

(***************************************************************************)
(* Data: the content section of name "data" that segment/data.py wraps     *)
(* (section/data.py).  Content-bearing like Text: same fields, same        *)
(* operations.                                                             *)
(***************************************************************************)
Data(byte) == [Text(byte) EXCEPT !.name = "data"]

(***************************************************************************)
(* The Section protocol (section/common.py): dispatch on the class, which  *)
(* the class attribute `name` identifies.                                  *)
(***************************************************************************)
ContentNames == {"text", "data"}

Ok(v) == [exc |-> "ok", val |-> v]
Raise(e) == [exc |-> e, val |-> <<>>]

Section_len(s) ==
    CASE s.name \in ContentNames -> Text_len(s)
      [] s.name = "symbol_table" -> SymbolTable_len(s)
      [] s.name = "relocation_table" -> RelocationTable_len(s)

Section_data(s) ==
    CASE s.name \in ContentNames -> Ok(Text_data(s))
      [] s.name = "symbol_table" -> Ok(SymbolTable_data(s))
      [] s.name = "relocation_table" ->
            IF RelocationTable_data_raises(s) THEN Raise("AttributeError")
            ELSE Ok(RelocationTable_data(s))

\* physical_size is len(self.data) in every class
Section_physical_size(s) == Len(Section_data(s).val)

\* the tables' symbols / relocations properties return []
Section_symbols(s) == IF s.name \in ContentNames THEN s.symbols ELSE <<>>

Section_relocations(s) == IF s.name \in ContentNames THEN s.relocations ELSE <<>>

\* SymbolTable.merge and RelocationTable.merge raise NotImplementedError
Section_merge(self, other) ==
    IF self.name \in ContentNames THEN Ok(Text_merge(self, other))
    ELSE Raise("NotImplementedError")

(***************************************************************************)
(* Parameters, SectionTableEntry, ObjectHeader (object_manager.py).        *)
(***************************************************************************)
Parameters(opcode_size, text_byte, data_byte, text_address, data_address) ==
    [opcode_size |-> opcode_size, text_byte |-> text_byte, data_byte |-> data_byte,
     text_address |-> text_address, data_address |-> data_address]

Parameters_from_bytes(file) ==
    Parameters(ReadU32LE(file, 0), ReadU32LE(file, 4), ReadU32LE(file, 8),
               ReadU32LE(file, 12), ReadU32LE(file, 16))

Parameters_to_bytes(p) ==
    U32LE(p.opcode_size) \o U32LE(p.text_byte) \o U32LE(p.data_byte)
        \o U32LE(p.text_address) \o U32LE(p.data_address)

Parameters_size == 20

SectionTableEntry(section_type, section_size) ==
    [section_type |-> section_type, section_size |-> section_size]

SectionTableEntry_from_bytes(file) ==
    SectionTableEntry(ReadU32LE(file, 0), ReadU32LE(file, 4))

SectionTableEntry_to_bytes(e) == U32LE(e.section_type) \o U32LE(e.section_size)

SectionTableEntry_size == 8

ObjectHeader(parameters, section_table_size) ==
    [parameters |-> parameters, section_table_size |-> section_table_size]

ObjectHeader_from_bytes(file) ==
    ObjectHeader(Parameters_from_bytes(file), ReadU32LE(file, Parameters_size))

ObjectHeader_to_bytes(h) ==
    Parameters_to_bytes(h.parameters) \o U32LE(h.section_table_size)

ObjectHeader_size == Parameters_size + 4

(***************************************************************************)
(* ObjectManager (object_manager.py).  Sections are objects: a manager     *)
(* holds references (indices into the heap of section objects).            *)
(***************************************************************************)
ObjectManager(parameters, data) ==
    [data |-> data, parameters |-> parameters, sections |-> <<>>]

\* the state to_bytes builds up: the two lists and the two new tables
ToBytesStart ==
    [sections_data |-> <<>>, sections_table |-> <<>>,
     symbol_table |-> SymbolTable, relocation_table |-> RelocationTable]

RECURSIVE SymbolTable_append_each(_, _)
SymbolTable_append_each(t, symbols) ==
    IF symbols = <<>> THEN Ok(t)
    ELSE IF SymbolTable_append_raises(t, Head(symbols)) THEN Raise("ValueError")
    ELSE SymbolTable_append_each(SymbolTable_append(t, Head(symbols)), Tail(symbols))

RECURSIVE RelocationTable_append_each(_, _)
RelocationTable_append_each(t, relocations) ==
    IF relocations = <<>> THEN t
    ELSE RelocationTable_append_each(RelocationTable_append(t, Head(relocations)),
                                     Tail(relocations))

\* to_bytes leaves out the sections of this class only
ObjectManager_to_bytes_skips(section) == section.name = "symbol_table"

\* one round of the loop of to_bytes over self._sections
ObjectManager_to_bytes_section(st, section) ==
    LET Round(d, syms) ==
            IF d.exc # "ok" THEN d
            ELSE IF syms.exc # "ok" THEN syms
            ELSE Ok([sections_data |-> Append(st.sections_data, d.val),
                     sections_table |->
                         Append(st.sections_table,
                                SectionTableEntry(section_name_to_id(section.name),
                                                  Section_len(section))),
                     symbol_table |-> syms.val,
                     relocation_table |->
                         RelocationTable_append_each(st.relocation_table,
                                                     Section_relocations(section))])
    IN  IF ObjectManager_to_bytes_skips(section) THEN Ok(st)
        ELSE Round(Section_data(section),
                   SymbolTable_append_each(st.symbol_table, Section_symbols(section)))

RECURSIVE ObjectManager_to_bytes_loop(_, _)
ObjectManager_to_bytes_loop(st, sections) ==
    LET Rest(r) ==
            IF r.exc # "ok" THEN r
            ELSE ObjectManager_to_bytes_loop(r.val, Tail(sections))
    IN  IF sections = <<>> THEN Ok(st)
        ELSE Rest(ObjectManager_to_bytes_section(st, Head(sections)))

\* to_bytes of a manager whose section objects are `sections`, in order
ObjectManager_to_bytes(parameters, sections) ==
    LET File(table, datas) ==
            ObjectHeader_to_bytes(ObjectHeader(parameters, Len(table)))
                \o Flatten([i \in 1..Len(table) |->
                               SectionTableEntry_to_bytes(table[i])])
                \o Flatten(datas)
        Written(st) ==
            IF RelocationTable_data_raises(st.relocation_table)
            THEN Raise("AttributeError")
            ELSE Ok(File(st.sections_table
                            \o << SectionTableEntry(section_name_to_id("symbol_table"),
                                                    SymbolTable_len(st.symbol_table)),
                                  SectionTableEntry(section_name_to_id("relocation_table"),
                                                    RelocationTable_len(st.relocation_table)) >>,
                         st.sections_data
                            \o << SymbolTable_data(st.symbol_table),
                                  RelocationTable_data(st.relocation_table) >>))
        Finish(r) == IF r.exc # "ok" THEN r ELSE Written(r.val)
    IN  Finish(ObjectManager_to_bytes_loop(ToBytesStart, sections))

ObjectManager_section_from_bytes(parameters, section_type, data, size) ==
    CASE section_type = section_name_to_id("text") ->
            Ok(Text_from_bytes(Text(parameters.text_byte), data, size))
      [] section_type = section_name_to_id("symbol_table") ->
            Ok(SymbolTable_from_bytes(SymbolTable, data, size))
      [] section_type = section_name_to_id("relocation_table") ->
            IF RelocationTable_from_bytes_raises(data, size) THEN Raise("TypeError")
            ELSE Ok(RelocationTable_from_bytes(RelocationTable, data, size))
      [] OTHER -> Raise("ValueError")

\* the first loop of load: the sections of the table, built one by one
RECURSIVE ObjectManager_load_sections(_, _, _, _, _, _)
ObjectManager_load_sections(data, parameters, table_offset, section_offset, left, acc) ==
    LET Rest(r) ==
            IF r.exc # "ok" THEN r
            ELSE ObjectManager_load_sections(data, parameters,
                     table_offset + SectionTableEntry_size,
                     section_offset + Section_physical_size(r.val),
                     left - 1, Append(acc, r.val))
        Load(section_entry) ==
            Rest(ObjectManager_section_from_bytes(parameters,
                     section_entry.section_type,
                     Slice(data, section_offset, Len(data)),
                     section_entry.section_size))
    IN  IF left = 0 THEN Ok(acc)
        ELSE Load(SectionTableEntry_from_bytes(Slice(data, table_offset, Len(data))))

\* the entries of a table that belong to the section of the given name
RECURSIVE EntriesOf(_, _)
EntriesOf(entries, name) ==
    IF entries = <<>> THEN <<>>
    ELSE IF Head(entries).location.section = name
         THEN <<Head(entries)>> \o EntriesOf(Tail(entries), name)
         ELSE EntriesOf(Tail(entries), name)

\* _apply_symbol_table: add_symbol on every section a symbol of the table names
ObjectManager_apply_symbol_table(sections, table) ==
    IF \E j \in 1..Len(sections) :
          /\ sections[j].name \notin ContentNames
          /\ EntriesOf(table.symbols, sections[j].name) # <<>>
    THEN Raise("NotImplementedError")
    ELSE Ok([j \in 1..Len(sections) |->
                IF sections[j].name \in ContentNames
                THEN [sections[j] EXCEPT
                         !.symbols = @ \o EntriesOf(table.symbols, sections[j].name)]
                ELSE sections[j]])

ObjectManager_apply_relocation_table(sections, table) ==
    IF \E j \in 1..Len(sections) :
          /\ sections[j].name \notin ContentNames
          /\ EntriesOf(table.relocations, sections[j].name) # <<>>
    THEN Raise("NotImplementedError")
    ELSE Ok([j \in 1..Len(sections) |->
                IF sections[j].name \in ContentNames
                THEN [sections[j] EXCEPT
                         !.relocations =
                             @ \o EntriesOf(table.relocations, sections[j].name)]
                ELSE sections[j]])

\* _apply_symbol_tables / _apply_relocation_tables: every table of the given
\* class found among the sections, from position i on, is applied
RECURSIVE ObjectManager_apply_tables(_, _, _)
ObjectManager_apply_tables(sections, kind, i) ==
    LET Rest(r) ==
            IF r.exc # "ok" THEN r
            ELSE ObjectManager_apply_tables(r.val, kind, i + 1)
    IN  IF i > Len(sections) THEN Ok(sections)
        ELSE IF sections[i].name # kind
        THEN ObjectManager_apply_tables(sections, kind, i + 1)
        ELSE IF kind = "symbol_table"
        THEN Rest(ObjectManager_apply_symbol_table(sections, sections[i]))
        ELSE Rest(ObjectManager_apply_relocation_table(sections, sections[i]))

\* load: the section objects the manager holds afterwards
ObjectManager_load(data) ==
    LET Relocations(syms) ==
            IF syms.exc # "ok" THEN syms
            ELSE ObjectManager_apply_tables(syms.val, "relocation_table", 1)
        Symbols(loaded) ==
            IF loaded.exc # "ok" THEN loaded
            ELSE Relocations(ObjectManager_apply_tables(loaded.val, "symbol_table", 1))
        Sections(header) ==
            Symbols(ObjectManager_load_sections(data, header.parameters,
                        ObjectHeader_size,
                        ObjectHeader_size
                            + SectionTableEntry_size * header.section_table_size,
                        header.section_table_size, <<>>))
    IN  Sections(ObjectHeader_from_bytes(data))

\* an append_section that never looks for a section of the same name
ObjectManager_find_nothing(sections, h, name) == 0

\* the position in self._sections of the first section of the given name, or 0
ObjectManager_find(sections, h, name) ==
    IF \E i \in 1..Len(sections) : h[sections[i]].name = name
    THEN CHOOSE i \in 1..Len(sections) :
            /\ h[sections[i]].name = name
            /\ \A j \in 1..(i - 1) : h[sections[j]].name # name
    ELSE 0

\* append_section(section), section being the object h[sid]: the manager's
\* section list and the heap afterwards
ObjectManager_append_section(sections, h, sid) ==
    LET found == ObjectManager_find(sections, h, h[sid].name)
    IN  IF found # 0
        THEN LET r == Section_merge(h[sections[found]], h[sid])
             IN  IF r.exc # "ok"
                 THEN [exc |-> r.exc, sections |-> sections, heap |-> h]
                 ELSE [exc |-> "ok", sections |-> sections,
                       heap |-> [h EXCEPT ![sections[found]] = r.val]]
        ELSE [exc |-> "ok", sections |-> Append(sections, sid), heap |-> h]

\* merge(other): append_section for the sections of other, in order, until one
\* raises
RECURSIVE ObjectManager_merge(_, _, _)
ObjectManager_merge(sections, h, others) ==
    IF others = <<>> THEN [exc |-> "ok", sections |-> sections, heap |-> h]
    ELSE LET r == ObjectManager_append_section(sections, h, Head(others))
         IN  IF r.exc # "ok" THEN r
             ELSE ObjectManager_merge(r.sections, r.heap, Tail(others))

\* ObjectManager.from_bytes(source): the parameters and the new section objects
ObjectManager_from_bytes(source) ==
    LET Manager(r) ==
            IF r.exc # "ok" THEN r
            ELSE Ok([parameters |-> ObjectHeader_from_bytes(source).parameters,
                     sections |-> r.val])
    IN  Manager(ObjectManager_load(source))

(***************************************************************************)
(* SpecOM: two ObjectManagers.  An assembler hands new sections to         *)
(* append_section, managers are merged into one another, and a manager is  *)
(* written with to_bytes and reopened with from_bytes.                     *)
(***************************************************************************)
Managers == {"A", "B"}

Free == [name |-> "free"]

RECURSIVE Trim(_)
Trim(h) ==
    IF h # <<>> /\ h[Len(h)].name = "free" THEN Trim(SubSeq(h, 1, Len(h) - 1)) ELSE h

\* section objects no manager refers to any more are dropped
Collect(h, o) ==
    LET live == UNION {{o[m].sections[i] : i \in 1..Len(o[m].sections)} : m \in Managers}
    IN  Trim([i \in 1..Len(h) |-> IF i \in live THEN h[i] ELSE Free])

\* the parameters of both managers: 6-bit text bytes, 8-bit data bytes
OMParameters == Parameters(8, 6, 8, 0, 16)

OMRelocParam == SymbolRelocationParams(RelocationTargetSymbol("main", "text"), 0, TRUE)

\* the sections an assembler hands over: Text(text_byte) / Data(data_byte) filled
\* with add_raw_symbol, add_byte, add_raw_relocation
SectionKinds == {"text_main", "text_helper", "text_reloc", "data_main"}

NewSection(parameters, kind) ==
    CASE kind = "text_main" ->
            Text_add_byte(Text_add_raw_symbol(Text(parameters.text_byte), "main"), 1)
      [] kind = "text_helper" ->
            Text_add_byte(Text_add_raw_symbol(Text(parameters.text_byte), "helper"), 2)
      [] kind = "text_reloc" ->
            Text_add_raw_relocation(Text_add_byte(Text(parameters.text_byte), 1),
                                    OMRelocParam)
      [] kind = "data_main" ->
            Text_add_byte(Text_add_raw_symbol(Data(parameters.data_byte), "main"), 1)

\* the section objects of a manager, in order
SectionsOf(o, h, m) == [i \in 1..Len(o[m].sections) |-> h[o[m].sections[i]]]

\* what `last` records: the operation, the manager it was called on, the manager
\* or <<the new section>> it was given, and the heap and managers before it
OMSnapshot(op, m, other, new) ==
    [op |-> op, self |-> m, other |-> other, new |-> new, heap |-> heap, oms |-> oms]

OMInit ==
    /\ oms = [m \in Managers |-> ObjectManager(OMParameters, <<>>)]
    /\ heap = <<>>
    /\ disk = <<>>
    /\ last = OMSnapshot("init", Null, Null, <<>>)
    /\ result = "ok"
    /\ steps = 0
    /\ texts = Null /\ parts = Null /\ width = Null
    /\ symtab = Null /\ symgiven = Null /\ symloaded = Null
    /\ reltab = Null /\ relloaded = Null
    /\ BAIdle /\ PBIdle /\ ExeIdle /\ HvIdle

\* what the operations of SpecOM leave alone
OMFrame == UNCHANGED <<textVars, symVars, relVars, baVars, pbVars, exeVars, hvVars>>

\* oms[m].append_section(new), new being a section just assembled
OMAppendSection(m, kind) ==
    /\ steps < MaxOMOps
    /\ \E new \in {NewSection(oms[m].parameters, kind)} :
          /\ \E r \in {ObjectManager_append_section(oms[m].sections,
                             Append(heap, new), Len(heap) + 1)} :
                /\ oms' = [oms EXCEPT ![m].sections = r.sections]
                /\ heap' = Collect(r.heap, [oms EXCEPT ![m].sections = r.sections])
                /\ result' = r.exc
          /\ last' = OMSnapshot("append_section", m, Null, <<new>>)
    /\ steps' = steps + 1
    /\ UNCHANGED disk
    /\ OMFrame

\* oms[a].merge(oms[b])
OMMerge(a, b) ==
    /\ steps < MaxOMOps
    /\ \E r \in {ObjectManager_merge(oms[a].sections, heap, oms[b].sections)} :
          /\ oms' = [oms EXCEPT ![a].sections = r.sections]
          /\ heap' = Collect(r.heap, [oms EXCEPT ![a].sections = r.sections])
          /\ result' = r.exc
    /\ last' = OMSnapshot("merge", a, b, <<>>)
    /\ steps' = steps + 1
    /\ UNCHANGED disk
    /\ OMFrame

\* data = oms[m].to_bytes(); oms[m] = ObjectManager.from_bytes(data)
OMReload(m) ==
    /\ steps < MaxOMOps
    /\ \E w \in {ObjectManager_to_bytes(oms[m].parameters, SectionsOf(oms, heap, m))} :
          IF w.exc # "ok"
          THEN result' = w.exc /\ disk' = <<>> /\ UNCHANGED <<oms, heap>>
          ELSE \E r \in {ObjectManager_from_bytes(w.val)} :
                  /\ disk' = w.val
                  /\ result' = r.exc
                  /\ IF r.exc # "ok"
                     THEN UNCHANGED <<oms, heap>>
                     ELSE \E o \in {[oms EXCEPT ![m] =
                                        [data |-> w.val,
                                         parameters |-> r.val.parameters,
                                         sections |-> [i \in 1..Len(r.val.sections) |->
                                                          Len(heap) + i]]]} :
                             /\ oms' = o
                             /\ heap' = Collect(heap \o r.val.sections, o)
    /\ last' = OMSnapshot("reload", m, Null, <<>>)
    /\ steps' = steps + 1
    /\ OMFrame

OMNext ==
    \/ \E m \in Managers, kind \in SectionKinds : OMAppendSection(m, kind)
    \/ \E a \in Managers, b \in Managers : OMMerge(a, b)
    \/ \E m \in Managers : OMReload(m)

SpecOM == OMInit /\ [][OMNext]_vars

(***************************************************************************)
(* Claims on the ObjectManager, checked under SpecOM.  `last` holds the    *)
(* managers and the heap as they were before the last operation.           *)
(***************************************************************************)
\* the section objects manager m held before the last operation
Before(m) == SectionsOf(last.oms, last.heap, m)

\* the section objects manager m holds now
Now(m) == SectionsOf(oms, heap, m)

\* sections holds a `text` section of exactly one element with exactly one symbol
HoldsUnit(sections, byte, name) ==
    \E i \in 1..Len(sections) :
        /\ sections[i].name = "text"
        /\ Elements(sections[i]) = <<byte>>
        /\ Len(sections[i].symbols) = 1
        /\ sections[i].symbols[1].name = name

\* C3: two managers each hold a `text` section of one byte (1 / 2) and one symbol
\* ("main" / "helper"); after first.merge(second) completes the first manager's
\* `text` section holds exactly the bytes [1, 2], "main" at offset 0 and
\* "helper" at offset 1.
C3_LinkingScenario ==
    (/\ last.op = "merge"
     /\ result = "ok"
     /\ last.self # last.other
     /\ HoldsUnit(Before(last.self), 1, "main")
     /\ HoldsUnit(Before(last.other), 2, "helper"))
    => \E i \in 1..Len(Now(last.self)) :
          LET text == Now(last.self)[i]
          IN  /\ text.name = "text"
              /\ Elements(text) = <<1, 2>>
              /\ \E k \in 1..Len(text.symbols) :
                    /\ text.symbols[k].name = "main"
                    /\ text.symbols[k].location.offset = 0
              /\ \E k \in 1..Len(text.symbols) :
                    /\ text.symbols[k].name = "helper"
                    /\ text.symbols[k].location.offset = 1

\* append_section as C4 states it: merge into the first section of the same
\* name, or else append as the last section
C4_append_section(sections, h, sid) ==
    LET same == {i \in 1..Len(sections) : h[sections[i]].name = h[sid].name}
        Merged(target, r) ==
            [exc |-> r.exc, sections |-> sections,
             heap |-> IF r.exc = "ok" THEN [h EXCEPT ![target] = r.val] ELSE h]
        Into(target) == Merged(target, Section_merge(h[target], h[sid]))
    IN  IF same = {}
        THEN [exc |-> "ok", sections |-> Append(sections, sid), heap |-> h]
        ELSE Into(sections[CHOOSE i \in same : \A j \in same : i <= j])

\* merge as C4 states it: append_section for the sections of other, in order
RECURSIVE C4_merge(_, _, _)
C4_merge(sections, h, others) ==
    LET Rest(r) ==
            IF r.exc # "ok" THEN r ELSE C4_merge(r.sections, r.heap, Tail(others))
    IN  IF others = <<>> THEN [exc |-> "ok", sections |-> sections, heap |-> h]
        ELSE Rest(C4_append_section(sections, h, Head(others)))

\* the operation ended as e says and every manager sees the sections e says
C4_Outcome(e) ==
    /\ result = e.exc
    /\ \A m \in Managers :
          Now(m) = SectionsOf([last.oms EXCEPT ![last.self].sections = e.sections],
                              e.heap, m)

\* C4: append_section(new) calls merge(new) on the section of the manager whose
\* name equals new.name and leaves the number of sections unchanged, or, when
\* there is none, appends new as the last section, the number of sections
\* growing by one; merge(other) performs append_section for every section of
\* other, in other's order.
C4_AppendSectionAndMerge ==
    /\ last.op = "append_section" =>
          /\ C4_Outcome(C4_append_section(last.oms[last.self].sections,
                                          Append(last.heap, last.new[1]),
                                          Len(last.heap) + 1))
          /\ IF \E i \in 1..Len(Before(last.self)) :
                   Before(last.self)[i].name = last.new[1].name
             THEN Len(Now(last.self)) = Len(Before(last.self))
             ELSE Now(last.self) = Append(Before(last.self), last.new[1])
    /\ last.op = "merge" =>
          C4_Outcome(C4_merge(last.oms[last.self].sections, last.heap,
                              last.oms[last.other].sections))

\* a manager holding `text` has merged a manager holding `text` and `data`: the
\* `text` sections were merged and `data` was appended last
C4_Witness ==
    /\ last.op = "merge"
    /\ result = "ok"
    /\ last.self # last.other
    /\ Len(Before(last.self)) = 1
    /\ Before(last.self)[1].name = "text"
    /\ Len(Before(last.other)) = 2
    /\ Before(last.other)[1].name = "text"
    /\ Before(last.other)[2].name = "data"
    /\ Len(Now(last.self)) = 2
    /\ Now(last.self)[1] = Text_merge(Before(last.self)[1], Before(last.other)[1])
    /\ Now(last.self)[2] = Before(last.other)[2]

\* the content sections among the given ones, in order
ContentSections(sections) == SelectSeq(sections, LAMBDA s : s.name \in ContentNames)

\* what the round trip is compared on: per content section its name and byte
\* data, its symbols (name, section, offset) and its relocations, as sets
ContentView(sections) ==
    { [name |-> s.name, data |-> Text_data(s),
       symbols |-> {s.symbols[k] : k \in 1..Len(s.symbols)},
       relocations |-> {s.relocations[k] : k \in 1..Len(s.relocations)}] :
      s \in {ContentSections(sections)[i] : i \in 1..Len(ContentSections(sections))} }

\* C5: for a manager m holding only Text and/or Data sections, with any symbols
\* and relocations, ObjectManager.from_bytes(m.to_bytes()) succeeds and yields
\* content sections, symbols and relocations set-equal to those of m.
C5_ObjectFileRoundTrip ==
    (/\ last.op = "reload"
     /\ \A i \in 1..Len(Before(last.self)) :
           Before(last.self)[i].name \in ContentNames)
    => /\ result = "ok"
       /\ ContentView(Now(last.self)) = ContentView(Before(last.self))

\* the section types of the section table of an object file, in order
SectionTableTypes(file) ==
    [i \in 1..ObjectHeader_from_bytes(file).section_table_size |->
        SectionTableEntry_from_bytes(
            Slice(file, ObjectHeader_size + (i - 1) * SectionTableEntry_size,
                  Len(file))).section_type]

\* C6: in every output of to_bytes the section table holds one entry per content
\* section of the manager, followed by exactly one SYMBOL_TABLE entry and
\* exactly one RELOCATION_TABLE entry, the last two; a table section the manager
\* holds is never written again.
C6_TablesRebuiltAndLast ==
    (last.op = "reload" /\ disk # <<>>)
    => SectionTableTypes(disk)
          = [i \in 1..Len(ContentSections(Before(last.self))) |->
                section_name_to_id(ContentSections(Before(last.self))[i].name)]
            \o << section_name_to_id("symbol_table"),
                  section_name_to_id("relocation_table") >>

\* C8: when two different content sections of a manager each hold a symbol of
\* the same name, to_bytes completes without a duplicate-symbol error and both
\* symbols are present after from_bytes.
C8_SameNameInTwoSections ==
    last.op = "reload" =>
        \A i, j \in 1..Len(Before(last.self)) :
            (/\ i # j
             /\ Before(last.self)[i].name \in ContentNames
             /\ Before(last.self)[j].name \in ContentNames
             /\ \E k \in 1..Len(Before(last.self)[i].symbols),
                   l \in 1..Len(Before(last.self)[j].symbols) :
                   Before(last.self)[i].symbols[k].name
                       = Before(last.self)[j].symbols[l].name)
            => /\ result = "ok"
               /\ \A n \in {i, j} :
                     \A k \in 1..Len(Before(last.self)[n].symbols) :
                        \E p \in 1..Len(Now(last.self)) :
                           \E q \in 1..Len(Now(last.self)[p].symbols) :
                              Now(last.self)[p].symbols[q]
                                  = Before(last.self)[n].symbols[k]

(***************************************************************************)
(* SpecBA: one ByteArray of some unit width, built with append, extend and *)
(* set, read with get, emptied with clear, and copied through to_bytes and *)
(* from_bytes into a new array of the same width.                          *)
(***************************************************************************)
UnitWidths == {1, 4, 6, 7, 8, 12, 16}
Capacities == {0, 2}

\* values of w bits: all zeros, all ones, and the pattern 0101..
ValuesOf(w) == {k % (2 ^ w) : k \in {0, 65535, 21845}}

\* the iterables handed to extend
RunsOf(w) ==
    { <<65535 % (2 ^ w), 21845 % (2 ^ w)>>,
      <<21845 % (2 ^ w), 0, 65535 % (2 ^ w)>> }

Indices == 0..4

BASnapshot(op, index, value) ==
    [op |-> op, self |-> array, index |-> index, value |-> value]

BAInit ==
    /\ \E w \in UnitWidths, c \in Capacities : array = ByteArray(w, c)
    /\ given = <<>>
    /\ copy = <<>>
    /\ last = BASnapshot("init", 0, 0)
    /\ result = "ok"
    /\ steps = 0
    /\ texts = Null /\ parts = Null /\ width = Null
    /\ symtab = Null /\ symgiven = Null /\ symloaded = Null
    /\ reltab = Null /\ relloaded = Null
    /\ heap = Null /\ oms = Null /\ disk = Null
    /\ PBIdle /\ ExeIdle /\ HvIdle

\* what the operations of SpecBA leave alone
BAFrame == UNCHANGED <<textVars, symVars, relVars, omVars, pbVars, exeVars, hvVars>>

BAAppend(k) ==
    /\ steps < MaxBAOps
    /\ \E v \in ValuesOf(array.byte) :
          /\ v = k % (2 ^ array.byte)
          /\ array' = ByteArray_append(array, v)
          /\ given' = Append(given, v)
          /\ last' = BASnapshot("append", 0, v)
    /\ result' = "ok"
    /\ steps' = steps + 1
    /\ UNCHANGED copy
    /\ BAFrame

BAExtend(n) ==
    /\ steps < MaxBAOps
    /\ \E run \in RunsOf(array.byte) :
          /\ Len(run) = n
          /\ array' = ByteArray_extend(array, run)
          /\ given' = given \o run
    /\ last' = BASnapshot("extend", 0, 0)
    /\ result' = "ok"
    /\ steps' = steps + 1
    /\ UNCHANGED copy
    /\ BAFrame

\* self[index] = value
BASet(index, k) ==
    /\ steps < MaxBAOps
    /\ \E v \in ValuesOf(array.byte) :
          /\ v = k % (2 ^ array.byte)
          /\ array' = ByteArray_setitem(array, index, v)
          /\ given' = IF ByteArray_setitem_raises(array, index) THEN given
                      ELSE [given EXCEPT ![index + 1] = v]
          /\ last' = BASnapshot("set", index, v)
    /\ result' = IF ByteArray_setitem_raises(array, index) THEN "IndexError" ELSE "ok"
    /\ steps' = steps + 1
    /\ UNCHANGED copy
    /\ BAFrame

\* self[index]; last.value is the value read, 0 when the read raised
BAGet(index) ==
    /\ steps < MaxBAOps
    /\ last' = BASnapshot("get", index,
                          IF ByteArray_getitem_raises(array, index) THEN 0
                          ELSE ByteArray_getitem(array, index))
    /\ result' = IF ByteArray_getitem_raises(array, index) THEN "IndexError" ELSE "ok"
    /\ steps' = steps + 1
    /\ UNCHANGED <<array, given, copy>>
    /\ BAFrame

BAClear ==
    /\ steps < MaxBAOps
    /\ array' = ByteArray_clear(array)
    /\ given' = <<>>
    /\ last' = BASnapshot("clear", 0, 0)
    /\ result' = "ok"
    /\ steps' = steps + 1
    /\ UNCHANGED copy
    /\ BAFrame

\* b = ByteArray(w); b.from_bytes(a.to_bytes(), len(a))
BARoundTrip ==
    /\ steps < MaxBAOps
    /\ copy' = <<ByteArray_from_bytes(ByteArray(array.byte, 0),
                                      ByteArray_to_bytes(array), ByteArray_len(array))>>
    /\ last' = BASnapshot("round_trip", 0, 0)
    /\ result' = "ok"
    /\ steps' = steps + 1
    /\ UNCHANGED <<array, given>>
    /\ BAFrame

\* self.from_bytes(self.to_bytes(), len(self)): the array takes its own bytes
\* as its buffer, and its capacity becomes its length
BALoad ==
    /\ steps < MaxBAOps
    /\ array' = ByteArray_from_bytes(array, ByteArray_to_bytes(array), ByteArray_len(array))
    /\ last' = BASnapshot("from_bytes", 0, 0)
    /\ result' = "ok"
    /\ steps' = steps + 1
    /\ UNCHANGED <<given, copy>>
    /\ BAFrame

BANext ==
    \/ \E k \in {0, 65535, 21845} : BAAppend(k)
    \/ BALoad
    \/ \E n \in {2, 3} : BAExtend(n)
    \/ \E index \in Indices, k \in {0, 65535} : BASet(index, k)
    \/ \E index \in Indices : BAGet(index)
    \/ BAClear
    \/ BARoundTrip

SpecBA == BAInit /\ [][BANext]_vars

\* C11: after b.from_bytes(a.to_bytes(), len(a)) on a new array b of a's unit
\* width, to_bytes(a) is ceil(len(a) * w / 8) bytes long, len(b) = len(a) and
\* b[i] = a[i] for every index i of a.
C11_ByteArrayRoundTrip ==
    last.op = "round_trip" =>
        LET a == last.self
            b == copy[1]
        IN  /\ Len(b.data) = (ByteArray_len(a) * a.byte + 7) \div 8
            /\ ByteArray_len(b) = ByteArray_len(a)
            /\ \A i \in 0..(ByteArray_len(a) - 1) :
                  /\ ~ByteArray_getitem_raises(b, i)
                  /\ ByteArray_getitem(b, i) = ByteArray_getitem(a, i)

\* an array of a width that does not divide 8, holding different non-zero
\* values that append, extend and set gave it, comes back as it was given
C11_Witness ==
    /\ last.op = "round_trip"
    /\ array.byte \in {7, 12}
    /\ Len(given) >= 3
    /\ \E i, j \in 1..Len(given) : given[i] # given[j] /\ given[i] # 0 /\ given[j] # 0
    /\ ByteArray_iter(copy[1]) = given
    /\ Len(array.data) > Len(copy[1].data)

\* C12: get(i) and set(i, v) with i >= the current length end in IndexError,
\* also after clear() when the buffer still holds the old bits, and the
\* failed operation leaves the array (length, buffer, capacity) as it was.
C12_OutOfRange ==
    (last.op \in {"get", "set"} /\ last.index >= ByteArray_len(last.self)) =>
        /\ result = "IndexError"
        /\ array = last.self

\* a set at index 0 right after clear(), over a buffer that still holds old bits
C12_Witness ==
    /\ last.op = "set"
    /\ ByteArray_len(last.self) = 0
    /\ \E i \in 1..Len(last.self.data) : last.self.data[i] # 0
    /\ last.index = 0
    /\ last.value # 0
    /\ result = "IndexError"
    /\ array = last.self

(***************************************************************************)
(* Flags (segment/common.py) and PlacedBinary (executable.py).             *)
(***************************************************************************)
Flags(executable, writable, readable, special, stripped) ==
    [executable |-> executable, writable |-> writable, readable |-> readable,
     special |-> special, stripped |-> stripped]

Bit(b) == IF b THEN 1 ELSE 0

\* struct.pack("B", stripped << 4 | special << 3 | readable << 2 | writable << 1 | executable)
Flags_bytes(f) ==
    << 16 * Bit(f.stripped) + 8 * Bit(f.special) + 4 * Bit(f.readable)
       + 2 * Bit(f.writable) + Bit(f.executable) >>

Flags_from_bytes(bytes_) ==
    Flags((bytes_[1] % 2) = 1, ((bytes_[1] \div 2) % 2) = 1,
          ((bytes_[1] \div 4) % 2) = 1, ((bytes_[1] \div 8) % 2) = 1,
          ((bytes_[1] \div 16) % 2) = 1)

PlacedBinary(data, offset, size, flags) ==
    [data |-> data, offset |-> offset, size |-> size, flags |-> flags]

PlacedBinary_disk_size_own_bytes(self) == ByteArray_len(self.data)

\* -(-len(self.data) // self.data._byte): the element count over the unit width
PlacedBinary_disk_size(self) == CeilDiv(ByteArray_len(self.data), self.data.byte)

PlacedBinary_bytes(self) == ByteArray_to_bytes(self.data)

PlacedBinary_from_bytes(bytes_, size, vsize, offset, flags, byte_size) ==
    PlacedBinary(ByteArray_from_bytes(ByteArray(byte_size, size), bytes_, size),
                 offset, vsize, flags)

\* other.offset - self.offset - len(self.data)
PlacedBinary_extend_gap(self, other) ==
    other.offset - self.offset - ByteArray_len(self.data)

\* a limit that is already passed when the gap reaches max_extend
PlacedBinary_extend_gap_raises_at_limit(self, other, max_extend) ==
    /\ ByteArray_len(self.data) < other.offset - self.offset
    /\ max_extend # <<>>
    /\ PlacedBinary_extend_gap(self, other) >= max_extend[1]

\* the first raise of extend; max_extend is <<>> for None, <<m>> otherwise
PlacedBinary_extend_gap_raises(self, other, max_extend) ==
    /\ ByteArray_len(self.data) < other.offset - self.offset
    /\ max_extend # <<>>
    /\ PlacedBinary_extend_gap(self, other) > max_extend[1]

\* self after "self.data.extend([0] * gap)", which runs before the widths are compared
PlacedBinary_extend_padded(self, other) ==
    IF ByteArray_len(self.data) < other.offset - self.offset
    THEN [self EXCEPT !.data = ByteArray_extend(@, Zeros(PlacedBinary_extend_gap(self, other)))]
    ELSE self

\* an extend that takes other's elements whatever their width
PlacedBinary_extend_width_ignored(self, other) == FALSE

\* the second raise of extend
PlacedBinary_extend_width_raises(self, other) == self.data.byte # other.data.byte

\* [binary |-> self after the call, result |-> "ok" or the exception raised];
\* size, offset and flags of self are not assigned
PlacedBinary_extend(self, other, max_extend) ==
    IF PlacedBinary_extend_gap_raises(self, other, max_extend)
    THEN [binary |-> self, result |-> "ValueError"]
    ELSE IF PlacedBinary_extend_width_raises(self, other)
    THEN [binary |-> PlacedBinary_extend_padded(self, other), result |-> "ValueError"]
    ELSE [binary |-> [PlacedBinary_extend_padded(self, other) EXCEPT
                         !.data = ByteArray_extend(@, ByteArray_iter(other.data))],
          result |-> "ok"]

\* SegmentTableEntry (executable.py)
SegmentTableEntry(start, byte_size, size, vsize, flags) ==
    [start |-> start, byte_size |-> byte_size, size |-> size, vsize |-> vsize,
     flags |-> flags]

\* struct.pack("<IIII", start, byte_size, size, vsize) + bytes(flags)
SegmentTableEntry_bytes(e) ==
    U32LE(e.start) \o U32LE(e.byte_size) \o U32LE(e.size) \o U32LE(e.vsize)
        \o Flags_bytes(e.flags)

SegmentTableEntry_segment_disk_size_own_bytes(e) == e.size

SegmentTableEntry_segment_disk_size(e) == CeilDiv(e.size, e.byte_size)

SegmentTableEntry_for_segment(segment) ==
    SegmentTableEntry(segment.offset, segment.data.byte,
                      PlacedBinary_disk_size_own_bytes(segment), segment.size,
                      segment.flags)

(***************************************************************************)
(* SpecPB: a PlacedBinary that other PlacedBinaries are extended onto, as  *)
(* a linker does when it joins the placed segments of one address space.   *)
(***************************************************************************)
PBWidths == {6, 8}
PBOffsets == {2, 4, 6, 10}
PBRuns == { <<1>>, <<5, 6, 7, 8>> }
PBMaxExtends == { <<>>, <<0>>, <<2>> }
PBFlags == Flags(TRUE, FALSE, TRUE, FALSE, FALSE)

\* a PlacedBinary of unit width w holding run; extra is the virtual tail
NewBinary(w, offset, run, extra) ==
    PlacedBinary(ByteArray_extend(ByteArray(w, 0), run), offset, Len(run) + extra, PBFlags)

\* disk_size and segment_disk_size are what the disk_size operation read, else 0
PBSnapshot(op, other, max_extend) ==
    [op |-> op, self |-> binary, other |-> other, max_extend |-> max_extend,
     disk_size |-> 0, segment_disk_size |-> 0]

PBInit ==
    /\ \E w \in PBWidths, run \in {<<>>, <<1, 2, 3, 4>>}, extra \in {0, 2} :
          /\ binary = NewBinary(w, 0, run, extra)
          /\ last = [op |-> "init", self |-> binary, other |-> binary, max_extend |-> <<>>,
                     disk_size |-> 0, segment_disk_size |-> 0]
    /\ result = "ok"
    /\ steps = 0
    /\ texts = Null /\ parts = Null /\ width = Null
    /\ symtab = Null /\ symgiven = Null /\ symloaded = Null
    /\ reltab = Null /\ relloaded = Null
    /\ heap = Null /\ oms = Null /\ disk = Null
    /\ BAIdle /\ ExeIdle /\ HvIdle

\* what the operations of SpecPB leave alone
PBFrame == UNCHANGED <<textVars, symVars, relVars, omVars, baVars, exeVars, hvVars>>

\* binary.extend(other, max_extend); max_extend = <<>> is the default, None
PBExtend(w, offset, run, max_extend) ==
    /\ steps < MaxPBOps
    /\ \E other \in {NewBinary(w, offset, run, 0)} :
       \E r \in {PlacedBinary_extend(binary, other, max_extend)} :
          /\ binary' = r.binary
          /\ result' = r.result
          /\ last' = PBSnapshot("extend", other, max_extend)
    /\ steps' = steps + 1
    /\ PBFrame

\* binary.disk_size and SegmentTableEntry.for_segment(binary).segment_disk_size
PBDiskSize ==
    /\ steps < MaxPBOps
    /\ last' = [PBSnapshot("disk_size", binary, <<>>) EXCEPT
                   !.disk_size = PlacedBinary_disk_size(binary),
                   !.segment_disk_size =
                       SegmentTableEntry_segment_disk_size(
                           SegmentTableEntry_for_segment(binary))]
    /\ result' = "ok"
    /\ steps' = steps + 1
    /\ UNCHANGED binary
    /\ PBFrame

PBNext ==
    \/ \E w \in PBWidths, offset \in PBOffsets, run \in PBRuns, max_extend \in PBMaxExtends :
          PBExtend(w, offset, run, max_extend)
    \/ PBDiskSize

SpecPB == PBInit /\ [][PBNext]_vars

\* the elements of a PlacedBinary's data, in order
PBElements(b) == ByteArray_iter(b.data)

\* C13: when other has self's byte width and starts where self's data ends
\* (other.offset = self.offset + len(self.data)), extend succeeds, self's data
\* is its old elements followed directly by other's elements, and self's size
\* covers the data of both.
C13_AdjacentExtend ==
    (/\ last.op = "extend"
     /\ last.self.data.byte = last.other.data.byte
     /\ PlacedBinary_extend_gap(last.self, last.other) = 0) =>
        /\ result = "ok"
        /\ PBElements(binary) = PBElements(last.self) \o PBElements(last.other)
        /\ binary.size >= ByteArray_len(binary.data)

C15_WidthMismatch ==
    (last.op = "extend" /\ last.self.data.byte # last.other.data.byte) =>
        LET gap == PlacedBinary_extend_gap(last.self, last.other)
            m == last.max_extend
        IN  /\ result = "ValueError"
            /\ PBElements(binary)
                  = PBElements(last.self)
                    \o Zeros(IF m # <<>> /\ gap > m[1] THEN 0 ELSE gap)
            /\ binary.data.byte = last.self.data.byte

\* a 6-bit binary with elements offered to an 8-bit one that it is adjacent to
C15_Witness ==
    /\ last.op = "extend"
    /\ last.self.data.byte = 8
    /\ last.other.data.byte = 6
    /\ PlacedBinary_extend_gap(last.self, last.other) = 0
    /\ ByteArray_len(last.self.data) = 4
    /\ PBElements(last.other) = <<5, 6, 7, 8>>
    /\ result = "ValueError"
    /\ PBElements(binary) = PBElements(last.self)

(***************************************************************************)
(* SegmentTableEntry, SegmentTable, ExecutableHeader and ExecutableFile    *)
(* (executable.py).  The file's raw storage is a bytearray; the mmap       *)
(* branches of clear and append_segment are not modelled.                  *)
(***************************************************************************)
\* data[lo:hi] = bytes_ on a bytearray: the slice is replaced, the length follows
SliceAssign(data, lo, hi, bytes_) ==
    LET l == Min(lo, Len(data))
        h == IF Min(hi, Len(data)) < l THEN l ELSE Min(hi, Len(data))
    IN  Slice(data, 0, l) \o bytes_ \o Slice(data, h, Len(data))

SegmentTable(n_segments, entries) == [n_segments |-> n_segments, entries |-> entries]

\* struct.unpack("<I", ...) raises struct.error unless the slice holds 4 bytes.
\* The loop body starts by evaluating len(SegmentTableEntry), len() of the
\* class itself, which raises TypeError: every n_segments >= 1 ends there and
\* no entry is ever read.
SegmentTable_from_bytes(bytes_, offset) ==
    IF Len(Slice(bytes_, offset, 4 + offset)) # 4 THEN Raise("struct.error")
    ELSE IF ReadU32LE(bytes_, offset) >= 1 THEN Raise("TypeError")
    ELSE Ok(SegmentTable(ReadU32LE(bytes_, offset), <<>>))

ExecutableHeader(harvard, entry_point, segment_table) ==
    [harvard |-> harvard, entry_point |-> entry_point, segment_table |-> segment_table]

\* struct.pack("<?I", harvard, entry_point): the segment table and its
\* n_segments are not part of the bytes
ExecutableHeader_bytes(h) == <<Bit(h.harvard)>> \o U32LE(h.entry_point)

\* struct.calcsize("<?I")
ExecutableHeader_len == 5

ExecutableHeader_from_bytes(bytes_) ==
    IF Len(Slice(bytes_, 0, ExecutableHeader_len)) # ExecutableHeader_len
    THEN Raise("struct.error")
    ELSE LET Rest(table) ==
                 IF table.exc # "ok" THEN table
                 ELSE Ok(ExecutableHeader(bytes_[1] # 0, ReadU32LE(bytes_, 1), table.val))
         IN  Rest(SegmentTable_from_bytes(bytes_, ExecutableHeader_len))

\* the header property: parsed from the raw storage at every use
ExecutableFile_header(data) == ExecutableHeader_from_bytes(data)

ExecutableFile_empty(harvard) ==
    ExecutableHeader_bytes(ExecutableHeader(harvard, 0, SegmentTable(0, <<>>)))

\* self.data after clear: the first len(header_bytes) bytes are overwritten,
\* a bytearray keeps whatever follows them
ExecutableFile_clear(data, harvard, entry_point) ==
    LET Rest(header_bytes) == SliceAssign(data, 0, Len(header_bytes), header_bytes)
    IN  Rest(ExecutableHeader_bytes(
                 ExecutableHeader(harvard, entry_point, SegmentTable(0, <<>>))))

\* the loop of segments() over the entries of the header's segment table
RECURSIVE ExecutableFile_segments_from(_, _, _)
ExecutableFile_segments_from(data, entries, offset) ==
    IF entries = <<>> THEN <<>>
    ELSE LET binary_entry == Head(entries)
         IN  << PlacedBinary_from_bytes(
                    Slice(data, offset,
                          offset + SegmentTableEntry_segment_disk_size(binary_entry)),
                    SegmentTableEntry_segment_disk_size_own_bytes(binary_entry),
                    binary_entry.vsize, binary_entry.start, binary_entry.flags,
                    binary_entry.byte_size) >>
             \o ExecutableFile_segments_from(data, Tail(entries),
                                             offset + binary_entry.size)

\* list(self.segments()): Ok(the binaries yielded) or the exception of self.header
ExecutableFile_segments(data) ==
    LET Rest(header) ==
            IF header.exc # "ok" THEN header
            ELSE Ok(ExecutableFile_segments_from(data, header.val.segment_table.entries,
                                                 ExecutableHeader_len))
    IN  Rest(ExecutableFile_header(data))

\* [data |-> self.data after the call, result |-> "ok" or the exception raised].
\* The entry and the segment's bytes are appended first; the header is then
\* parsed from the grown storage, and written back without its n_segments.
ExecutableFile_append_segment(data, segment) ==
    LET Rewritten(grown, header) ==
            IF header.exc # "ok" THEN [data |-> grown, result |-> header.exc]
            ELSE [data |-> SliceAssign(grown, 0, ExecutableHeader_len,
                              ExecutableHeader_bytes(
                                  [header.val EXCEPT !.segment_table.n_segments = @ + 1])),
                  result |-> "ok"]
        Grown(grown) == Rewritten(grown, ExecutableFile_header(grown))
    IN  Grown(data \o SegmentTableEntry_bytes(SegmentTableEntry_for_segment(segment))
                   \o PlacedBinary_bytes(segment))

(***************************************************************************)
(* SpecExe: one ExecutableFile over a bytearray that starts as             *)
(* ExecutableFile.empty(harvard); segments are appended, the file is       *)
(* cleared, and the header and the segments are read back.                 *)
(***************************************************************************)
ExeWidths == {6, 8}
ExeOffsets == {0, 4}
ExeEntryPoints == {0, 7}

\* a segment of unit width w at offset, with a virtual tail of extra elements
ExeSegment(w, offset, extra, executable) ==
    PlacedBinary(ByteArray_extend(ByteArray(w, 0),
                                  IF executable THEN <<1, 2, 3, 4>> ELSE <<5, 6, 7>>),
                 offset, (IF executable THEN 4 ELSE 3) + extra,
                 Flags(executable, ~executable, TRUE, FALSE, FALSE))

ExeSnapshot(op, segment, yielded) ==
    [op |-> op, self |-> exe, segment |-> segment, yielded |-> yielded]

ExeInit ==
    /\ \E harvard \in BOOLEAN :
          /\ exe = ExecutableFile_empty(harvard)
          /\ exegiven = [harvard |-> harvard, entry_point |-> 0, segments |-> <<>>]
    /\ last = ExeSnapshot("init", <<>>, <<>>)
    /\ result = "ok"
    /\ steps = 0
    /\ texts = Null /\ parts = Null /\ width = Null
    /\ symtab = Null /\ symgiven = Null /\ symloaded = Null
    /\ reltab = Null /\ relloaded = Null
    /\ heap = Null /\ oms = Null /\ disk = Null
    /\ BAIdle /\ PBIdle /\ HvIdle

\* what the operations of SpecExe leave alone
ExeFrame == UNCHANGED <<textVars, symVars, relVars, omVars, baVars, pbVars, hvVars>>

ExeAppendSegment(w, offset, extra, executable) ==
    /\ steps < MaxExeOps
    /\ \E segment \in {ExeSegment(w, offset, extra, executable)} :
       \E r \in {ExecutableFile_append_segment(exe, segment)} :
          /\ exe' = r.data
          /\ result' = r.result
          /\ exegiven' = [exegiven EXCEPT !.segments = Append(@, segment)]
          /\ last' = ExeSnapshot("append_segment", <<segment>>, <<>>)
    /\ steps' = steps + 1
    /\ ExeFrame

ExeClear(harvard, entry_point) ==
    /\ steps < MaxExeOps
    /\ exe' = ExecutableFile_clear(exe, harvard, entry_point)
    /\ exegiven' = [harvard |-> harvard, entry_point |-> entry_point, segments |-> <<>>]
    /\ result' = "ok"
    /\ last' = ExeSnapshot("clear", <<>>, <<>>)
    /\ steps' = steps + 1
    /\ ExeFrame

\* list(self.segments())
ExeSegments ==
    /\ steps < MaxExeOps
    /\ \E r \in {ExecutableFile_segments(exe)} :
          /\ result' = r.exc
          /\ last' = ExeSnapshot("segments", <<>>, r.val)
    /\ steps' = steps + 1
    /\ UNCHANGED <<exe, exegiven>>
    /\ ExeFrame

\* self.header
ExeHeader ==
    /\ steps < MaxExeOps
    /\ result' = ExecutableFile_header(exe).exc
    /\ last' = ExeSnapshot("header", <<>>, <<>>)
    /\ steps' = steps + 1
    /\ UNCHANGED <<exe, exegiven>>
    /\ ExeFrame

ExeNext ==
    \/ \E w \in ExeWidths, offset \in ExeOffsets, extra \in {0, 2}, executable \in BOOLEAN :
          ExeAppendSegment(w, offset, extra, executable)
    \/ \E harvard \in BOOLEAN, entry_point \in ExeEntryPoints : ExeClear(harvard, entry_point)
    \/ ExeSegments
    \/ ExeHeader

SpecExe == ExeInit /\ [][ExeNext]_vars

\* C16: after N >= 1 append_segment calls on an empty or cleared executable,
\* segments() yields exactly N binaries, in append order, each with the
\* offset, the elements, the virtual size and the flags of the one appended.
C16_SegmentRoundTrip ==
    (last.op = "segments" /\ Len(exegiven.segments) >= 1) =>
        /\ result = "ok"
        /\ Len(last.yielded) = Len(exegiven.segments)
        /\ \A i \in 1..Len(exegiven.segments) :
              /\ last.yielded[i].offset = exegiven.segments[i].offset
              /\ PBElements(last.yielded[i]) = PBElements(exegiven.segments[i])
              /\ last.yielded[i].data.byte = exegiven.segments[i].data.byte
              /\ last.yielded[i].size = exegiven.segments[i].size
              /\ last.yielded[i].flags = exegiven.segments[i].flags

\* C17: after k append_segment calls since the executable was cleared (or
\* created empty), the header read from the raw storage has n_segments = k and
\* the harvard flag and entry point the executable was cleared with.
C17_HeaderCountsSegments ==
    last.op = "append_segment" =>
        /\ result = "ok"
        /\ ExecutableFile_header(exe).exc = "ok"
        /\ ExecutableFile_header(exe).val.segment_table.n_segments
              = Len(exegiven.segments)
        /\ ExecutableFile_header(exe).val.harvard = exegiven.harvard
        /\ ExecutableFile_header(exe).val.entry_point = exegiven.entry_point

\* C18: after clear(harvard, entry_point), from any earlier state, the header
\* reads back with that harvard flag and entry point and n_segments = 0, and
\* segments() yields nothing.
C18_ClearResets ==
    last.op = "clear" =>
        /\ ExecutableFile_header(exe).exc = "ok"
        /\ ExecutableFile_header(exe).val.harvard = exegiven.harvard
        /\ ExecutableFile_header(exe).val.entry_point = exegiven.entry_point
        /\ ExecutableFile_header(exe).val.segment_table.n_segments = 0
        /\ ExecutableFile_segments(exe) = Ok(<<>>)

(***************************************************************************)
(* HarvardExecutableFilePair (executable.py), over two bytearrays.  The    *)
(* regions are indexed in 8-bit bytes; segment.offset and segment.size are *)
(* used as such indices as they are.                                       *)
(***************************************************************************)
HarvardExecutableFilePair(text, data) == [text |-> text, data |-> data]

\* [pair |-> self after the call, result |-> "ok" or the exception raised]
HarvardExecutableFilePair_clear(self, harvard, entry_point) ==
    IF ~harvard \/ entry_point # 0
    THEN [pair |-> self, result |-> "AssertionError"]
    ELSE [pair |-> HarvardExecutableFilePair(
                       SliceAssign(self.text, 0, Len(self.text), <<>>),
                       SliceAssign(self.data, 0, Len(self.data), <<>>)),
          result |-> "ok"]

HarvardExecutableFilePair_text_len_to_fit(self, size) ==
    IF size > Len(self.text)
    THEN [self EXCEPT !.text = @ \o Zeros(size - Len(self.text))]
    ELSE self

HarvardExecutableFilePair_data_len_to_fit(self, size) ==
    IF size > Len(self.data)
    THEN [self EXCEPT !.data = @ \o Zeros(size - Len(self.data))]
    ELSE self

\* "if segment.data:" is len(segment.data) != 0; the slice of size elements
\* is replaced by the packed bytes of the segment, however many they are
HarvardExecutableFilePair_append_text_segment(self, segment) ==
    IF ByteArray_len(segment.data) = 0 THEN self
    ELSE [HarvardExecutableFilePair_text_len_to_fit(self, segment.offset + segment.size)
             EXCEPT !.text = SliceAssign(@, segment.offset, segment.offset + segment.size,
                                         PlacedBinary_bytes(segment))]

HarvardExecutableFilePair_append_data_segment(self, segment) ==
    IF ByteArray_len(segment.data) = 0 THEN self
    ELSE [HarvardExecutableFilePair_data_len_to_fit(self, segment.offset + segment.size)
             EXCEPT !.data = SliceAssign(@, segment.offset, segment.offset + segment.size,
                                         PlacedBinary_bytes(segment))]

\* a routing on the writable flag: what is not writable goes to text
HarvardExecutableFilePair_routes_unwritable_to_text(segment) == ~segment.flags.writable

\* "if segment.flags.executable"
HarvardExecutableFilePair_routes_to_text(segment) == segment.flags.executable

HarvardExecutableFilePair_append_segment(self, segment) ==
    IF HarvardExecutableFilePair_routes_to_text(segment)
    THEN HarvardExecutableFilePair_append_text_segment(self, segment)
    ELSE HarvardExecutableFilePair_append_data_segment(self, segment)

(***************************************************************************)
(* SpecHv: one HarvardExecutableFilePair over two bytearrays that start    *)
(* empty; segments are appended and the pair is cleared.                   *)
(***************************************************************************)
HvWidths == {6, 8}
HvOffsets == {0, 2, 5}
HvRuns == { <<>>, <<1, 2, 3, 4>> }
HvFlags ==
    { Flags(TRUE, FALSE, TRUE, FALSE, FALSE),    \* code
      Flags(FALSE, TRUE, TRUE, FALSE, FALSE),    \* data
      Flags(FALSE, FALSE, TRUE, FALSE, FALSE) }  \* read-only data

HvSnapshot(op, segment) == [op |-> op, self |-> pair, segment |-> segment]

HvInit ==
    /\ pair = HarvardExecutableFilePair(<<>>, <<>>)
    /\ last = HvSnapshot("init", <<>>)
    /\ result = "ok"
    /\ steps = 0
    /\ texts = Null /\ parts = Null /\ width = Null
    /\ symtab = Null /\ symgiven = Null /\ symloaded = Null
    /\ reltab = Null /\ relloaded = Null
    /\ heap = Null /\ oms = Null /\ disk = Null
    /\ BAIdle /\ PBIdle /\ ExeIdle

\* what the operations of SpecHv leave alone
HvFrame == UNCHANGED <<textVars, symVars, relVars, omVars, baVars, pbVars, exeVars>>

HvAppendSegment(w, offset, run, extra, flags) ==
    /\ steps < MaxHvOps
    /\ \E segment \in {PlacedBinary(ByteArray_extend(ByteArray(w, 0), run), offset,
                                    Len(run) + extra, flags)} :
          /\ pair' = HarvardExecutableFilePair_append_segment(pair, segment)
          /\ last' = HvSnapshot("append_segment", <<segment>>)
    /\ result' = "ok"
    /\ steps' = steps + 1
    /\ HvFrame

HvClear(harvard, entry_point) ==
    /\ steps < MaxHvOps
    /\ \E r \in {HarvardExecutableFilePair_clear(pair, harvard, entry_point)} :
          /\ pair' = r.pair
          /\ result' = r.result
    /\ last' = HvSnapshot("clear", <<>>)
    /\ steps' = steps + 1
    /\ HvFrame

HvNext ==
    \/ \E w \in HvWidths, offset \in HvOffsets, run \in HvRuns, extra \in {0, 2},
          flags \in HvFlags : HvAppendSegment(w, offset, run, extra, flags)
    \/ \E harvard \in BOOLEAN, entry_point \in {0, 7} : HvClear(harvard, entry_point)

SpecHv == HvInit /\ [][HvNext]_vars

\* C19: append_segment writes a segment whose flags.executable is true into
\* the text region only, the data region staying as it was, and any other
\* segment into the data region only, the text region staying as it was; a
\* segment that holds data is found in its region, as packed bytes, from
\* index `offset` on.
C19_HarvardRouting ==
    last.op = "append_segment" =>
        LET segment == last.segment[1]
            Routed(before, now, other_before, other_now) ==
                /\ other_now = other_before
                /\ ByteArray_len(segment.data) > 0 =>
                      Slice(now, segment.offset,
                            segment.offset + Len(PlacedBinary_bytes(segment)))
                          = PlacedBinary_bytes(segment)
        IN  IF segment.flags.executable
            THEN Routed(last.self.text, pair.text, last.self.data, pair.data)
            ELSE Routed(last.self.data, pair.data, last.self.text, pair.text)

\* a read-only data segment (neither executable nor writable) lands in data
\* while text, which already holds code, stays as it was
C19_Witness ==
    /\ last.op = "append_segment"
    /\ ~last.segment[1].flags.executable
    /\ ~last.segment[1].flags.writable
    /\ ByteArray_len(last.segment[1].data) > 0
    /\ last.self.text # <<>>
    /\ pair.text = last.self.text
    /\ pair.data # last.self.data

\* C20: across append_segment calls neither region gets shorter, and after a
\* segment (offset, size, data) was appended its region is at least
\* offset + size long, holds the segment's packed bytes from index offset on,
\* and is zero in the gap before offset and in the virtual tail after the
\* bytes, where the region was grown.  Stated for the segments that hold data.
C20_RegionGrowth ==
    (last.op = "append_segment" /\ ByteArray_len(last.segment[1].data) > 0) =>
        LET segment == last.segment[1]
            bytes_ == PlacedBinary_bytes(segment)
            Grown(before, now) ==
                /\ Len(now) >= segment.offset + segment.size
                /\ Slice(now, segment.offset, segment.offset + Len(bytes_)) = bytes_
                /\ \A i \in (Len(before) + 1)..(segment.offset + segment.size) :
                      (i <= segment.offset \/ i > segment.offset + Len(bytes_))
                          => now[i] = 0
        IN  /\ Len(pair.text) >= Len(last.self.text)
            /\ Len(pair.data) >= Len(last.self.data)
            /\ IF segment.flags.executable
               THEN Grown(last.self.text, pair.text)
               ELSE Grown(last.self.data, pair.data)

\* the references (heap indices) of the section objects manager m holds
RefsOf(o, m) == {o[m].sections[i] : i \in 1..Len(o[m].sections)}

\* C21: an append_section or merge on one manager leaves the sections of every
\* other manager (byte data, symbols, relocations) as they were, and no
\* section object, with its ByteArray, is held by two managers.
C21_NoSharedState ==
    /\ last.op \in {"append_section", "merge"} =>
          \A m \in Managers \ {last.self} : Now(m) = Before(m)
    /\ \A m1, m2 \in Managers : m1 # m2 => RefsOf(oms, m1) \cap RefsOf(oms, m2) = {}

\* C22: for the bytes b a manager's to_bytes returned,
\* ObjectManager.from_bytes(b).to_bytes() is b again.
C22_SerializeLoadStable ==
    disk # <<>> =>
        LET Again(r) ==
                /\ r.exc = "ok"
                /\ ObjectManager_to_bytes(r.val.parameters, r.val.sections) = Ok(disk)
        IN  Again(ObjectManager_from_bytes(disk))

\* C23: when merge raises, the manager it was called on holds the sections it
\* held before the call, with the same byte data, symbols and relocations.
C23_FailedMergeAtomic ==
    (last.op = "merge" /\ result # "ok") => Now(last.self) = Before(last.self)

\* C24: after a successful extend between binaries of one byte width, other's
\* i-th element is at index other.offset - self.offset + i of self.data, for
\* every i, and self's elements before index other.offset - self.offset are
\* the old ones; for other.offset beyond, at and before the end of self's data.
C24_ExtendPlacement ==
    (/\ last.op = "extend"
     /\ result = "ok"
     /\ last.self.data.byte = last.other.data.byte) =>
        LET at == last.other.offset - last.self.offset
        IN  /\ \A i \in 0..(ByteArray_len(last.other.data) - 1) :
                  /\ at + i < ByteArray_len(binary.data)
                  /\ PBElements(binary)[at + i + 1] = PBElements(last.other)[i + 1]
            /\ \A k \in 1..Min(at, ByteArray_len(last.self.data)) :
                  PBElements(binary)[k] = PBElements(last.self)[k]

\* C25: when extend raises, for a gap larger than max_extend or for different
\* byte widths, with or without a gap, self.data has the length and the
\* elements it had before the call.
C25_FailedExtendUnchanged ==
    (last.op = "extend" /\ result # "ok") =>
        /\ ByteArray_len(binary.data) = ByteArray_len(last.self.data)
        /\ PBElements(binary) = PBElements(last.self)

\* C26: disk_size of a PlacedBinary of n elements of width w is the number of
\* 8-bit bytes of bytes(binary), ceil(n * w / 8), and segment_disk_size of its
\* segment table entry is ceil(size * byte_size / 8).
C26_DiskSize ==
    last.op = "disk_size" =>
        /\ last.disk_size = Len(PlacedBinary_bytes(binary))
        /\ last.disk_size = (ByteArray_len(binary.data) * binary.data.byte + 7) \div 8
        /\ last.segment_disk_size
              = (ByteArray_len(binary.data) * binary.data.byte + 7) \div 8

\* C27: for every unit width, a set(i, v) with i below the length and
\* 0 <= v < 2^w succeeds, makes element i equal to v and leaves the length and
\* every other element as they were; an append(v) makes the array one element
\* longer with v as its last element and leaves the earlier elements as they
\* were, also when it follows clear() or from_bytes.
C27_ByteArrayFrame ==
    /\ (last.op = "set" /\ last.index < ByteArray_len(last.self)) =>
          /\ result = "ok"
          /\ ByteArray_len(array) = ByteArray_len(last.self)
          /\ \A i \in 0..(ByteArray_len(last.self) - 1) :
                ByteArray_getitem(array, i)
                    = IF i = last.index THEN last.value
                      ELSE ByteArray_getitem(last.self, i)
    /\ last.op = "append" =>
          /\ ByteArray_len(array) = ByteArray_len(last.self) + 1
          /\ ByteArray_getitem(array, ByteArray_len(last.self)) = last.value
          /\ \A i \in 0..(ByteArray_len(last.self) - 1) :
                ByteArray_getitem(array, i) = ByteArray_getitem(last.self, i)

\* an append to an array of a width that does not divide 8, right after
\* from_bytes left it with no spare capacity and a buffer that ends inside
\* its last byte, holding non-zero elements
C27_Witness ==
    /\ last.op = "append"
    /\ array.byte \in {7, 12}
    /\ last.self.capacity = ByteArray_len(last.self)
    /\ ByteArray_len(last.self) >= 2
    /\ Len(last.self.data) = (ByteArray_len(last.self) * array.byte + 7) \div 8
    /\ last.value # 0
    /\ ByteArray_getitem(last.self, 0) # 0
    /\ ByteArray_getitem(last.self, 1) # 0
    /\ ByteArray_iter(array) = Append(ByteArray_iter(last.self), last.value)

====
